---- MODULE Spec2Model ----
(***************************************************************************)
(* A model of the imgui SDL2 renderer backend (src/src/lib.rs):            *)
(* Renderer::new (font atlas setup), Renderer::render (per-frame           *)
(* translation of draw commands into surface calls) and                    *)
(* Renderer::setup_render_state.                                           *)
(*                                                                         *)
(* Floating point values are fixed point numbers with Den units per 1.0.   *)
(* Every input set below is chosen so that each product the code forms is  *)
(* a whole number of units (scales are whole numbers), i.e. the f32        *)
(* arithmetic of the code is exact on these inputs.                        *)
(*                                                                         *)
(* A rectangle is <<x, y, w, h>>; Option<Rect> is <<>> (None) or a         *)
(* rectangle (Some).                                                       *)
(***************************************************************************)
EXTENDS Integers, Sequences, FiniteSets

VARIABLES
    has_renderer,   \* Renderer::new has returned Ok(Self)
    texture_map,    \* Renderer.texture_map: [textures, next]
    imgui_ctx,      \* the imgui context: renderer name, backend flags, fonts.tex_id
    new_result,     \* what the last call of Renderer::new returned
    canvas,         \* the WindowCanvas: clip rectangle, viewport, scale, blend mode
    pc,             \* position of the render call in progress
    draw_data,      \* render's draw_data argument
    fb,             \* render's locals render_scale, fb_width, fb_height
    backup,         \* render's local BackupSDLRendererState
    k,              \* number of commands of draw_data the loops have consumed
    entry,          \* the canvas clip rectangle and viewport when render was called
    log,            \* the calls render has made on the canvas and the callbacks
    retval          \* render's return value, once it is determined

vars == <<has_renderer, texture_map, imgui_ctx, new_result, canvas, pc, draw_data,
          fb, backup, k, entry, log, retval>>

-----------------------------------------------------------------------------
(* Bounds of the model *)

\* fixed point units per 1.0
Den == 2
\* most commands in one frame
MaxCmds == 2
\* most draw lists (segments) in one frame
MaxLists == 2

\* bytes per pixel of the font atlas
RGBA32_BYTES == 4

-----------------------------------------------------------------------------
(* Numbers *)

Whole(n) == n * Den
\* n + 1/Den, a value with a fractional part
Frac(n) == n * Den + 1

Mul(a, b) == (a * b) \div Den

\* `as i32` of a float: truncation toward zero
AsI32(x) == IF x >= 0 THEN x \div Den ELSE -((-x) \div Den)

\* `as u32` of a float: truncation toward zero, negative values give 0
AsU32(x) == IF x <= 0 THEN 0 ELSE x \div Den

\* sdl2::rect::Rect::new: a width or height of 0 is replaced with 1
RectNew(x, y, w, h) == <<x, y, IF w = 0 THEN 1 ELSE w, IF h = 0 THEN 1 ELSE h>>

None == <<>>

-----------------------------------------------------------------------------
(* The texture registry, imgui::Textures *)

TexturesNew == [textures |-> <<>>, next |-> 0]

TexturesInsert(map, texture) ==
    [id  |-> map.next,
     map |-> [textures |-> [i \in DOMAIN map.textures \cup {map.next} |->
                               IF i = map.next THEN texture ELSE map.textures[i]],
              next |-> map.next + 1]]

\* Option<&T>: <<>> when the handle is absent
TexturesGet(map, id) ==
    IF id \in DOMAIN map.textures THEN <<map.textures[id]>> ELSE <<>>

-----------------------------------------------------------------------------
(* Inputs *)

\* the viewport set_viewport(None) selects: the whole render target
OutputViewport == <<0, 0, 640, 480>>

\* clip rectangle and viewport the application left on the canvas
SurfaceStates == {<<None, OutputViewport>>, <<<<5, 5, 20, 20>>, <<10, 10, 100, 100>>>>}

\* canvas.scale()
CanvasScales == {<<Whole(1), Whole(1)>>, <<Frac(1), Whole(1)>>}

AtlasSizes == {<<1, 1>>, <<2, 1>>}

DisplaySizes == {<<Whole(100), Whole(100)>>, <<Whole(30), Whole(30)>>,
                 <<0, Whole(30)>>, <<Whole(30), Whole(-1)>>}

DisplayPositions == {<<0, 0>>, <<Whole(20), Frac(0)>>}

FramebufferScales == {<<Whole(2), Whole(2)>>, <<Whole(1), Whole(2)>>}

ClipA == <<Whole(10), Whole(10), Whole(50), Whole(50)>>
\* less than one pixel wide
ClipSub == <<Frac(3), Frac(3), Whole(4), Whole(60)>>
\* begins at the right edge of the smaller framebuffers and ends beyond all
ClipOut == <<Whole(30), Whole(10), Whole(300), Whole(50)>>

Clips == {ClipA, ClipSub, ClipOut}

\* handle 0 is the first the registry hands out; handle 1 is never inserted

\* the clip rectangle and texture handle of the geometry commands
ClipTex == (Clips \X {0}) \cup {<<ClipA, 1>>}

\* what a raw callback leaves on the canvas
CallbackEffects == {[clip |-> <<1, 2, 3, 4>>, viewport |-> <<7, 7, 50, 50>>]}

NoEffect == [clip |-> None, viewport |-> None]

Elements(clip_rect, texture_id) ==
    [kind |-> "Elements", clip_rect |-> clip_rect, texture_id |-> texture_id,
     effect |-> NoEffect]

RawCallback(effect) ==
    [kind |-> "RawCallback", clip_rect |-> None, texture_id |-> 0, effect |-> effect]

ResetRenderState ==
    [kind |-> "ResetRenderState", clip_rect |-> None, texture_id |-> 0,
     effect |-> NoEffect]

DrawCmds == {Elements(ct[1], ct[2]) : ct \in ClipTex}
            \cup {RawCallback(e) : e \in CallbackEffects}
            \cup {ResetRenderState}

SeqsUpTo(S, n) == UNION {[1..m -> S] : m \in 0..n}

\* the sequences of at most nl draw lists holding at most nc commands in all;
\* the toolkit leaves a draw list without commands out of the frame
RECURSIVE DrawListsUpTo(_, _)
DrawListsUpTo(nl, nc) ==
    IF nl = 0 THEN {<<>>}
    ELSE {<<>>} \cup
         UNION {{<<h>> \o t : t \in DrawListsUpTo(nl - 1, nc - Len(h))} :
                  h \in SeqsUpTo(DrawCmds, nc) \ {<<>>}}

DrawListSets == DrawListsUpTo(MaxLists, MaxCmds)

DrawDatas ==
    [display_size : DisplaySizes, display_pos : DisplayPositions,
     framebuffer_scale : FramebufferScales, draw_lists : DrawListSets]

NoDrawData ==
    [display_size |-> <<0, 0>>, display_pos |-> <<0, 0>>,
     framebuffer_scale |-> <<0, 0>>, draw_lists |-> <<>>]

NoFb == [render_scale |-> <<0, 0>>, fb_width |-> 0, fb_height |-> 0]

NoBackup == [clip_rect |-> None, viewport |-> None]

-----------------------------------------------------------------------------
(* Renderer::new *)

FontTexture(atlas) ==
    [width |-> atlas[1], height |-> atlas[2], pitch |-> atlas[1] * RGBA32_BYTES,
     blend |-> "Blend", scale_mode |-> "Linear"]

\* Renderer::new with the font handle assigned as soon as the texture exists,
\* before the upload
NewOutcomeEarlyRegister(ctx, cv, atlas, createOk, uploadOk) ==
    LET announced == [ctx EXCEPT !.renderer_name = TRUE, !.has_vtx_offset = TRUE]
        ins == TexturesInsert(TexturesNew, FontTexture(atlas))
        assigned == [announced EXCEPT !.tex_id = ins.id, !.tex_id_set = TRUE]
    IN  IF ~createOk
        THEN [result |-> "Err(create_texture_static)", ctx |-> announced,
              canvas |-> cv, has_renderer |-> FALSE, texture_map |-> TexturesNew]
        ELSE IF ~uploadOk
        THEN [result |-> "Err(update)", ctx |-> assigned,
              canvas |-> cv, has_renderer |-> FALSE, texture_map |-> TexturesNew]
        ELSE [result |-> "Ok", ctx |-> assigned,
              canvas |-> [cv EXCEPT !.blend = "Blend"],
              has_renderer |-> TRUE, texture_map |-> ins.map]

\* The state Renderer::new leaves, given whether create_texture_static and
\* Texture::update succeed.
NewOutcome(ctx, cv, atlas, createOk, uploadOk) ==
    LET announced == [ctx EXCEPT !.renderer_name = TRUE, !.has_vtx_offset = TRUE]
        ins == TexturesInsert(TexturesNew, FontTexture(atlas))
    IN  IF ~createOk
        THEN [result |-> "Err(create_texture_static)", ctx |-> announced,
              canvas |-> cv, has_renderer |-> FALSE, texture_map |-> TexturesNew]
        ELSE IF ~uploadOk
        THEN [result |-> "Err(update)", ctx |-> announced,
              canvas |-> cv, has_renderer |-> FALSE, texture_map |-> TexturesNew]
        ELSE [result |-> "Ok",
              ctx |-> [announced EXCEPT !.tex_id = ins.id, !.tex_id_set = TRUE],
              canvas |-> [cv EXCEPT !.blend = "Blend"],
              has_renderer |-> TRUE, texture_map |-> ins.map]

New ==
    /\ ~has_renderer
    /\ pc = "Idle"
    /\ \E atlas \in AtlasSizes, createOk \in BOOLEAN, uploadOk \in BOOLEAN :
         LET out == NewOutcome(imgui_ctx, canvas, atlas, createOk, uploadOk)
         IN  /\ new_result' = out.result
             /\ imgui_ctx' = out.ctx
             /\ canvas' = out.canvas
             /\ has_renderer' = out.has_renderer
             /\ texture_map' = out.texture_map
    /\ UNCHANGED <<pc, draw_data, fb, backup, k, entry, log, retval>>

-----------------------------------------------------------------------------
(* Renderer::render *)

\* the frame's framebuffer scale where the canvas's own scale is exactly 1.0
EffectiveScale(canvas_scale, framebuffer_scale) ==
    <<IF canvas_scale[1] = Whole(1) THEN framebuffer_scale[1] ELSE Whole(1),
      IF canvas_scale[2] = Whole(1) THEN framebuffer_scale[2] ELSE Whole(1)>>

FbSize(dd, render_scale) ==
    [render_scale |-> render_scale,
     fb_width  |-> Mul(dd.display_size[1], render_scale[1]),
     fb_height |-> Mul(dd.display_size[2], render_scale[2])]

\* the early return taken for negative sizes only
DegenerateNegativeOnly(fb_width, fb_height) == fb_width < 0 \/ fb_height < 0

Degenerate(fb_width, fb_height) == ~(fb_width > 0 /\ fb_height > 0)

\* the commands of the frame in the order the nested loops visit them
RECURSIVE CommandOrder(_)
CommandOrder(draw_lists) ==
    IF draw_lists = <<>> THEN <<>>
    ELSE Head(draw_lists) \o CommandOrder(Tail(draw_lists))

\* clip_min and clip_max before clamping
ClipTransform(clip_rect, clip_off, clip_scale) ==
    [min |-> <<Mul(clip_rect[1] - clip_off[1], clip_scale[1]),
               Mul(clip_rect[2] - clip_off[2], clip_scale[2])>>,
     max |-> <<Mul(clip_rect[3] - clip_off[1], clip_scale[1]),
               Mul(clip_rect[4] - clip_off[2], clip_scale[2])>>]

\* the clamp without the cap at the framebuffer size
ClampClipMinOnly(clip, fb_width, fb_height) ==
    [min |-> <<IF clip.min[1] < 0 THEN 0 ELSE clip.min[1],
               IF clip.min[2] < 0 THEN 0 ELSE clip.min[2]>>,
     max |-> clip.max]

ClampClip(clip, fb_width, fb_height) ==
    [min |-> <<IF clip.min[1] < 0 THEN 0 ELSE clip.min[1],
               IF clip.min[2] < 0 THEN 0 ELSE clip.min[2]>>,
     max |-> <<IF clip.max[1] > fb_width THEN fb_width ELSE clip.max[1],
               IF clip.max[2] > fb_height THEN fb_height ELSE clip.max[2]>>]

\* the skip test with < in place of <=
ClipEmptyStrict(clip) == clip.max[1] < clip.min[1] \/ clip.max[2] < clip.min[2]

ClipEmpty(clip) == clip.max[1] <= clip.min[1] \/ clip.max[2] <= clip.min[2]

\* the Rect handed to canvas.set_clip_rect
ClipRect(clip) ==
    RectNew(AsI32(clip.min[1]), AsI32(clip.min[2]),
            AsU32(clip.max[1] - clip.min[1]), AsU32(clip.max[2] - clip.min[2]))

\* the clamped clip rectangle of a geometry command of frame dd
CmdClip(dd, f, cmd) ==
    ClampClip(ClipTransform(cmd.clip_rect, dd.display_pos, f.render_scale),
              f.fb_width, f.fb_height)

\* a miss falling back to the first texture of the registry
BoundTextureOrFirst(map, texture_id) ==
    IF texture_id \in DOMAIN map.textures THEN TexturesGet(map, texture_id)
    ELSE TexturesGet(map, 0)

\* the texture argument of SDL_RenderGeometryRaw: <<>> is the null pointer
BoundTexture(map, texture_id) == TexturesGet(map, texture_id)

Event(op, cmd, rect, tex) == [op |-> op, cmd |-> cmd, rect |-> rect, tex |-> tex]

SetClipRect(cv, rect) == [cv EXCEPT !.clip = rect]

\* set_viewport(None) selects the whole render target
SetViewport(cv, rect) ==
    [cv EXCEPT !.viewport = IF rect = None THEN OutputViewport ELSE rect]

\* the reset without the viewport
SetupRenderStateClipOnly(cv) == SetClipRect(cv, None)

SetupRenderState(cv) == SetViewport(SetClipRect(cv, None), None)

SetupRenderStateLog(n) ==
    <<Event("set_clip_rect", n, None, None), Event("set_viewport", n, None, None)>>

\* a backup that holds the baseline state instead of the canvas's
TakeBackupDefault(cv) == [clip_rect |-> None, viewport |-> OutputViewport]

\* the backup taken before the loops
TakeBackup(cv) == [clip_rect |-> cv.clip, viewport |-> cv.viewport]

\* the restore without the viewport
RestoreBackupClipOnly(cv, b) == SetClipRect(cv, b.clip_rect)

RestoreBackup(cv, b) == SetViewport(SetClipRect(cv, b.clip_rect), b.viewport)

\* lines 68-99: the scale, the degenerate frame's early return, the backup
RenderBegin ==
    /\ has_renderer
    /\ pc = "Idle"
    /\ \E dd \in DrawDatas :
         LET f == FbSize(dd, EffectiveScale(canvas.scale, dd.framebuffer_scale))
         IN  /\ draw_data' = dd
             /\ fb' = f
             /\ entry' = [clip |-> canvas.clip, viewport |-> canvas.viewport]
             /\ IF Degenerate(f.fb_width, f.fb_height)
                THEN /\ pc' = "Skipped"
                     /\ retval' = "Ok"
                     /\ backup' = NoBackup
                     /\ log' = <<>>
                ELSE /\ pc' = "StateSaved"
                     /\ retval' = "none"
                     /\ backup' = TakeBackup(canvas)
                     /\ log' = <<Event("clip_rect", 0, canvas.clip, None),
                                 Event("viewport", 0, canvas.viewport, None)>>
    /\ k' = 0
    /\ UNCHANGED <<has_renderer, texture_map, imgui_ctx, new_result, canvas>>

\* what one iteration of the inner loop does to the canvas and adds to the log
CommandStep(cv, map, dd, f, cmd, n) ==
    IF cmd.kind = "Elements"
    THEN LET clip == CmdClip(dd, f, cmd)
         IN  IF ClipEmpty(clip)
             THEN [canvas |-> cv, log |-> <<>>]
             ELSE [canvas |-> SetClipRect(cv, ClipRect(clip)),
                   log |-> <<Event("set_clip_rect", n, ClipRect(clip), None),
                             Event("draw", n, None, BoundTexture(map, cmd.texture_id))>>]
    ELSE IF cmd.kind = "RawCallback"
    THEN [canvas |-> [cv EXCEPT !.clip = cmd.effect.clip,
                                !.viewport = cmd.effect.viewport],
          log |-> <<Event("callback", n, None, None)>>]
    ELSE [canvas |-> SetupRenderState(cv), log |-> SetupRenderStateLog(n)]

\* lines 101-182: one iteration of the loops over draw lists and commands
RenderCommand ==
    /\ pc \in {"StateSaved", "Drawing"}
    /\ k < Len(CommandOrder(draw_data.draw_lists))
    /\ LET step == CommandStep(canvas, texture_map, draw_data, fb,
                               CommandOrder(draw_data.draw_lists)[k + 1], k + 1)
       IN  /\ canvas' = step.canvas
           /\ log' = log \o step.log
    /\ k' = k + 1
    /\ pc' = "Drawing"
    /\ UNCHANGED <<has_renderer, texture_map, imgui_ctx, new_result, draw_data, fb,
                   backup, entry, retval>>

\* lines 184-185: the loops are over, the backup is put back
RenderRestore ==
    /\ pc \in {"StateSaved", "Drawing"}
    /\ k = Len(CommandOrder(draw_data.draw_lists))
    /\ canvas' = RestoreBackup(canvas, backup)
    /\ log' = log \o <<Event("set_clip_rect", 0, backup.clip_rect, None),
                       Event("set_viewport", 0, backup.viewport, None)>>
    /\ pc' = "StateRestored"
    /\ retval' = "Ok"
    /\ UNCHANGED <<has_renderer, texture_map, imgui_ctx, new_result, draw_data, fb,
                   backup, k, entry>>

\* render consuming the renderer: its textures are dropped with the locals
RenderReturnDropRegistry ==
    /\ pc \in {"Skipped", "StateRestored"}
    /\ pc' = "Idle"
    /\ draw_data' = NoDrawData
    /\ fb' = NoFb
    /\ backup' = NoBackup
    /\ k' = 0
    /\ entry' = [clip |-> None, viewport |-> None]
    /\ log' = <<>>
    /\ retval' = "none"
    /\ texture_map' = TexturesNew
    /\ UNCHANGED <<has_renderer, imgui_ctx, new_result, canvas>>

\* lines 90 and 186: render returns; draw_data and the locals are dropped
RenderReturn ==
    /\ pc \in {"Skipped", "StateRestored"}
    /\ pc' = "Idle"
    /\ draw_data' = NoDrawData
    /\ fb' = NoFb
    /\ backup' = NoBackup
    /\ k' = 0
    /\ entry' = [clip |-> None, viewport |-> None]
    /\ log' = <<>>
    /\ retval' = "none"
    /\ UNCHANGED <<has_renderer, texture_map, imgui_ctx, new_result, canvas>>

-----------------------------------------------------------------------------

Init ==
    /\ has_renderer = FALSE
    /\ texture_map = TexturesNew
    /\ imgui_ctx = [renderer_name |-> FALSE, has_vtx_offset |-> FALSE,
                    tex_id |-> 0, tex_id_set |-> FALSE]
    /\ new_result = "none"
    /\ canvas \in {[clip |-> s[1], viewport |-> s[2], scale |-> sc, blend |-> "None"] :
                     s \in SurfaceStates, sc \in CanvasScales}
    /\ pc = "Idle"
    /\ draw_data = NoDrawData
    /\ fb = NoFb
    /\ backup = NoBackup
    /\ k = 0
    /\ entry = [clip |-> None, viewport |-> None]
    /\ log = <<>>
    /\ retval = "none"

Next == New \/ RenderBegin \/ RenderCommand \/ RenderRestore \/ RenderReturn

Spec == Init /\ [][Next]_vars

-----------------------------------------------------------------------------
(* What the specification expects of the frame in progress, computed from    *)
(* render's inputs alone                                                    *)

AtReturn == pc \in {"Skipped", "StateRestored"}

ExpectedScale ==
    [a \in 1..2 |-> IF canvas.scale[a] = Whole(1)
                    THEN draw_data.framebuffer_scale[a] ELSE Whole(1)]

ExpectedFb == [a \in 1..2 |-> Mul(draw_data.display_size[a], ExpectedScale[a])]

ExpectedDegenerate == ExpectedFb[1] <= 0 \/ ExpectedFb[2] <= 0

FrameLen ==
    LET RECURSIVE Sum(_)
        Sum(dl) == IF dl = <<>> THEN 0 ELSE Len(Head(dl)) + Sum(Tail(dl))
    IN  Sum(draw_data.draw_lists)

\* the n-th command of the frame, counting segment by segment
FrameCommand(n) ==
    LET RECURSIVE Nth(_, _)
        Nth(dl, i) == IF i <= Len(Head(dl)) THEN Head(dl)[i]
                      ELSE Nth(Tail(dl), i - Len(Head(dl)))
    IN  Nth(draw_data.draw_lists, n)

Lower(x, y) == IF x < y THEN x ELSE y
Higher(x, y) == IF x > y THEN x ELSE y

\* min and max corner of the n-th command's clip rectangle after offset,
\* scale and clamp
ExpectedMin(n) ==
    [a \in 1..2 |->
       Higher(0, Mul(FrameCommand(n).clip_rect[a] - draw_data.display_pos[a],
                     ExpectedScale[a]))]

ExpectedMax(n) ==
    [a \in 1..2 |->
       Lower(ExpectedFb[a],
             Mul(FrameCommand(n).clip_rect[a + 2] - draw_data.display_pos[a],
                 ExpectedScale[a]))]

FullyClipped(n) ==
    \E a \in 1..2 : ExpectedMax(n)[a] <= ExpectedMin(n)[a]

IsGeometry(n) == FrameCommand(n).kind = "Elements"

Drawn(n) == IsGeometry(n) /\ ~FullyClipped(n)

EventsOf(n) == {i \in 1..Len(log) : log[i].cmd = n}

DrawsOf(n) == {i \in EventsOf(n) : log[i].op = "draw"}

-----------------------------------------------------------------------------
(* Claims *)

\* C1: when render returns from a frame with a non-degenerate framebuffer, the
\* canvas's clip rectangle and viewport equal the values they had when render
\* was called, whatever commands the frame held.
C1_SurfaceRestored ==
    (AtReturn /\ ~ExpectedDegenerate) =>
        (canvas.clip = entry.clip /\ canvas.viewport = entry.viewport)

\* a frame whose callback and reset both changed the canvas has been restored
C1_Witness ==
    /\ pc = "StateRestored"
    /\ entry.clip # None
    /\ FrameLen = 2
    /\ FrameCommand(1).kind = "RawCallback"
    /\ FrameCommand(2).kind = "ResetRenderState"
    /\ Len(log) = 7

\* C2: a frame whose framebuffer width or height is <= 0 is skipped whole: no
\* draw call, no command processed, nothing set on the canvas, and render
\* returns success.
C2_DegenerateSkipped ==
    (pc # "Idle" /\ ExpectedDegenerate) =>
        /\ pc = "Skipped"
        /\ retval = "Ok"
        /\ k = 0
        /\ log = <<>>
        /\ canvas.clip = entry.clip /\ canvas.viewport = entry.viewport

\* a frame of zero width holding a callback and a geometry command is skipped
C2_Witness ==
    /\ pc = "Skipped"
    /\ ExpectedFb[1] = 0
    /\ FrameLen = 2
    /\ FrameCommand(1).kind = "RawCallback"
    /\ IsGeometry(2)

\* C3: a geometry command whose clamped clip rectangle has max <= min on
\* either axis sets no clip rectangle and issues no draw call, and the
\* commands after it are still processed.
C3_ClippedSkipped ==
    (pc \in {"StateSaved", "Drawing", "StateRestored"}) =>
        \A n \in 1..FrameLen :
            (IsGeometry(n) /\ FullyClipped(n)) =>
                /\ EventsOf(n) = {}
                /\ pc = "StateRestored" =>
                       /\ k = FrameLen
                       /\ \A m \in (n + 1)..FrameLen :
                              (~IsGeometry(m) \/ Drawn(m)) => EventsOf(m) # {}

\* a command clipped away by the clamp to the framebuffer (max = min), then a
\* command that is drawn
C3_Witness ==
    /\ pc = "StateRestored"
    /\ FrameLen = 2
    /\ IsGeometry(1)
    /\ ExpectedMax(1)[1] = ExpectedMin(1)[1]
    /\ ExpectedMin(1)[1] > 0
    /\ Drawn(2)
    /\ DrawsOf(2) # {}

\* the set_clip_rect calls made for geometry commands
ClipEvents ==
    {i \in 1..Len(log) : /\ log[i].op = "set_clip_rect"
                         /\ log[i].cmd > 0
                         /\ IsGeometry(log[i].cmd)}

Trunc(x) == x \div Den

\* the integer rectangle built from the n-th command's clamped clip rectangle
TruncatedRect(n) ==
    LET w == Trunc(ExpectedMax(n)[1] - ExpectedMin(n)[1])
        h == Trunc(ExpectedMax(n)[2] - ExpectedMin(n)[2])
    IN  <<Trunc(ExpectedMin(n)[1]), Trunc(ExpectedMin(n)[2]),
          IF w = 0 THEN 1 ELSE w, IF h = 0 THEN 1 ELSE h>>

WholeCorners(n) ==
    \A a \in 1..2 : /\ ExpectedMin(n)[a] % Den = 0
                    /\ ExpectedMax(n)[a] % Den = 0

\* the corners of an integer rectangle are the corners computed for command n
CornersExact(rect, n) ==
    \A a \in 1..2 : /\ Whole(rect[a]) = ExpectedMin(n)[a]
                    /\ Whole(rect[a] + rect[a + 2]) = ExpectedMax(n)[a]

IsExample(n, size) ==
    /\ FrameCommand(n).clip_rect = ClipA
    /\ draw_data.display_pos = <<0, 0>>
    /\ ExpectedScale = <<Whole(2), Whole(2)>>
    /\ ExpectedFb = <<Whole(size), Whole(size)>>

\* C4 as stated: the clip rectangle handed to the canvas for a drawn geometry
\* command has min corner max(0, (clip_min - display_pos) * scale) and max
\* corner min(framebuffer size, (clip_max - display_pos) * scale).
C4_CornersAsStated ==
    \A i \in ClipEvents : CornersExact(log[i].rect, log[i].cmd)

\* C4 as amended: the rectangle handed to the canvas is the truncation of the
\* rectangle with those corners (x = trunc(min_x), y = trunc(min_y), width =
\* trunc(max_x - min_x), height = trunc(max_y - min_y), a width or height of 0
\* raised to 1); its corners are the stated ones whenever those are whole
\* numbers, as in the examples [20,20,100,100] and max corner [60,60].
C4_CornersTruncated ==
    \A i \in ClipEvents :
        LET n == log[i].cmd
        IN  /\ log[i].rect = TruncatedRect(n)
            /\ WholeCorners(n) => CornersExact(log[i].rect, n)
            /\ IsExample(n, 200) => log[i].rect = <<20, 20, 80, 80>>
            /\ IsExample(n, 60) => log[i].rect = <<20, 20, 40, 40>>

\* the clamping example has been drawn
C4_Witness ==
    /\ pc = "StateRestored"
    /\ \E i \in ClipEvents :
           /\ IsExample(log[i].cmd, 60)
           /\ log[i].rect = <<20, 20, 40, 40>>
           /\ canvas.scale = <<Whole(1), Whole(1)>>

\* C5: a geometry command with a non-empty clamped clip rectangle and a texture
\* handle the registry does not hold issues exactly one draw call, with the
\* null texture; render returns no error and goes on to the later commands.
C5_MissingTextureDrawn ==
    /\ retval \in {"none", "Ok"}
    /\ \A n \in 1..k :
           (Drawn(n) /\ FrameCommand(n).texture_id \notin DOMAIN texture_map.textures) =>
               /\ Cardinality(DrawsOf(n)) = 1
               /\ \A i \in DrawsOf(n) : log[i].tex = None
               /\ pc = "StateRestored" =>
                      /\ retval = "Ok"
                      /\ k = FrameLen
                      /\ \A m \in (n + 1)..FrameLen :
                             (~IsGeometry(m) \/ Drawn(m)) => EventsOf(m) # {}

\* an untextured draw followed by a draw with the font texture bound
C5_Witness ==
    /\ pc = "StateRestored"
    /\ FrameLen = 2
    /\ Drawn(1) /\ TexturesGet(texture_map, FrameCommand(1).texture_id) = None
    /\ Drawn(2) /\ TexturesGet(texture_map, FrameCommand(2).texture_id) # None
    /\ \E i \in DrawsOf(1) : log[i].tex = None
    /\ \E i \in DrawsOf(2) : log[i].tex # None

\* C9 as stated: whenever the draw primitive is reached, the integer rectangle
\* obtained by truncating the clamped clip rectangle has width >= 1 and
\* height >= 1.
C9_TruncatedNonEmpty ==
    \A i \in 1..Len(log) :
        log[i].op = "draw" =>
            \A a \in 1..2 :
                Trunc(ExpectedMax(log[i].cmd)[a] - ExpectedMin(log[i].cmd)[a]) >= 1

\* C6: the font texture is registered only after creation and upload have
\* both succeeded: on success the registry holds exactly one texture, whose
\* handle is the toolkit's font-texture handle; on failure new returns an
\* error, there is no Renderer, no registry holds anything and the toolkit's
\* font-texture handle is not assigned.
C6_FontRegistered ==
    /\ has_renderer <=> new_result = "Ok"
    /\ new_result = "Ok" =>
           /\ Cardinality(DOMAIN texture_map.textures) = 1
           /\ imgui_ctx.tex_id_set
           /\ DOMAIN texture_map.textures = {imgui_ctx.tex_id}
    /\ new_result # "Ok" =>
           /\ DOMAIN texture_map.textures = {}
           /\ ~imgui_ctx.tex_id_set
           /\ imgui_ctx.tex_id = 0

\* the texture was created and its upload failed
C6_Witness ==
    /\ new_result = "Err(update)"
    /\ imgui_ctx.has_vtx_offset
    /\ ~has_renderer

\* C7: once initialization has succeeded the registry never changes: no step
\* of render inserts, removes or replaces an entry, and the font handle
\* recorded at initialization resolves to a texture of the registry.
C7_RegistryFixed ==
    /\ [](has_renderer => TexturesGet(texture_map, imgui_ctx.tex_id) # None)
    /\ [][has_renderer => /\ has_renderer'
                          /\ texture_map' = texture_map
                          /\ imgui_ctx'.tex_id = imgui_ctx.tex_id]_vars

\* a frame has been drawn with the font texture the registry still holds
C7_Witness ==
    /\ pc = "StateRestored"
    /\ \E i \in 1..Len(log) :
           /\ log[i].op = "draw"
           /\ log[i].tex # None
           /\ log[i].tex = TexturesGet(texture_map, imgui_ctx.tex_id)

SavedFirst ==
    /\ Len(log) >= 2
    /\ log[1].op = "clip_rect" /\ log[1].rect = entry.clip
    /\ log[2].op = "viewport" /\ log[2].rect = entry.viewport

RestoredLast ==
    /\ Len(log) >= 4
    /\ log[Len(log) - 1].op = "set_clip_rect"
    /\ log[Len(log) - 1].cmd = 0
    /\ log[Len(log) - 1].rect = entry.clip
    /\ log[Len(log)].op = "set_viewport"
    /\ log[Len(log)].cmd = 0
    /\ log[Len(log)].rect = entry.viewport

PhaseOrder ==
    {<<"Idle", "StateSaved">>, <<"Idle", "Skipped">>, <<"StateSaved", "Drawing">>,
     <<"StateSaved", "StateRestored">>, <<"Drawing", "StateRestored">>,
     <<"StateRestored", "Idle">>, <<"Skipped", "Idle">>}

PhaseInvariant ==
    /\ pc = "Skipped" =>
           /\ ExpectedDegenerate
           /\ log = <<>>
           /\ backup = NoBackup
           /\ canvas.clip = entry.clip /\ canvas.viewport = entry.viewport
    /\ pc \in {"StateSaved", "Drawing", "StateRestored"} =>
           /\ ~ExpectedDegenerate
           /\ SavedFirst
           /\ backup.clip_rect = entry.clip /\ backup.viewport = entry.viewport
    /\ pc = "StateSaved" => (k = 0 /\ Len(log) = 2)
    /\ pc = "Drawing" => (k >= 1 /\ \A i \in 3..Len(log) : log[i].cmd > 0)
    /\ pc = "StateRestored" =>
           /\ RestoredLast
           /\ canvas.clip = entry.clip /\ canvas.viewport = entry.viewport

ExpectedOps(n) ==
    IF IsGeometry(n)
    THEN IF FullyClipped(n) THEN <<>>
         ELSE <<<<"set_clip_rect", n>>, <<"draw", n>>>>
    ELSE IF FrameCommand(n).kind = "RawCallback" THEN <<<<"callback", n>>>>
    ELSE <<<<"set_clip_rect", n>>, <<"set_viewport", n>>>>

ExpectedTrace(m) ==
    LET RECURSIVE Upto(_)
        Upto(n) == IF n = 0 THEN <<>> ELSE Upto(n - 1) \o ExpectedOps(n)
    IN  Upto(m)

\* the calls made for commands so far, between the save and the restore
CommandTrace ==
    LET n == Len(log) - 2 - (IF pc = "StateRestored" THEN 2 ELSE 0)
    IN  [i \in 1..n |-> <<log[i + 2].op, log[i + 2].cmd>>]

\* the canvas right after the k-th command
AfterCommand ==
    LET c == FrameCommand(k)
    IN  /\ c.kind = "RawCallback" =>
               (canvas.clip = c.effect.clip /\ canvas.viewport = c.effect.viewport)
        /\ c.kind = "ResetRenderState" =>
               (canvas.clip = None /\ canvas.viewport = OutputViewport)
        /\ Drawn(k) => canvas.clip = TruncatedRect(k)

\* C10: within a non-degenerate frame the commands are processed in order,
\* segment by segment and command by command: the draw calls, callback
\* invocations and resets made so far are those of the commands consumed so
\* far, in the frame's order, with the fully clipped geometry commands
\* removed, one draw call per drawn command; each callback has finished and
\* each reset has cleared the clip rectangle and viewport before the next
\* command is processed.
C10_InOrder ==
    (pc \in {"StateSaved", "Drawing", "StateRestored"}) =>
        /\ CommandTrace = ExpectedTrace(k)
        /\ pc = "StateRestored" => k = FrameLen
        /\ pc = "Drawing" => AfterCommand

\* a frame of two segments: a drawn geometry command, then a callback
C10_Witness ==
    /\ pc = "StateRestored"
    /\ FrameLen = 2
    /\ Len(draw_data.draw_lists) = 2
    /\ Len(draw_data.draw_lists[1]) = 1
    /\ Drawn(1)
    /\ FrameCommand(2).kind = "RawCallback"
    /\ CommandTrace = <<<<"set_clip_rect", 1>>, <<"draw", 1>>, <<"callback", 2>>>>

====
